---- MODULE Spec2Model ----
(***************************************************************************)
(* Model of main.py: load a triangle mesh, draw the three edges of every   *)
(* face on a 3D axes, set the axis labels and the camera, show the figure. *)
(* One action per statement of the script.  Python indices are 0-based and *)
(* kept as such in the face list; TLA+ sequences are 1-based, so the       *)
(* vertex at Python position i is vertices[i + 1].                         *)
(***************************************************************************)
EXTENDS Integers, Sequences, FiniteSets

\* Largest number of vertices / faces of a loaded mesh.
MaxVerts == 4
MaxFaces == 2

VARIABLES
    pc,        \* the statement the script is about to execute
    error,     \* "none", or the exception that terminated the script
    vertices,  \* mesh.vertices : sequence of <<x, y, z>>
    faces,     \* mesh.faces    : sequence of <<i, j, k>>, 0-based indices
    it,        \* number of faces the for-loop iterator has handed out
    face,      \* loop variable `face`
    x, y, z,   \* loop locals: the three vertices' x / y / z coordinates
    canvas,    \* the ax.plot calls issued so far, in order
    labels,    \* axis labels of ax
    camera,    \* view angles of ax
    loads,     \* number of completed trimesh.load_mesh calls
    shows      \* number of plt.show calls made

vars == <<pc, error, vertices, faces, it, face, x, y, z, canvas, labels,
          camera, loads, shows>>

\* The coordinates of the sample points: pairwise distinct over points and
\* over axes, so that any exchange of a point or of an axis is visible.
Point(i) == <<10 * i + 1, 10 * i + 2, 10 * i + 3>>

Points == {Point(i) : i \in 1..MaxVerts}

\* Vertex lists the loader may return: up to MaxVerts distinct points in
\* increasing or decreasing order.
VertexLists ==
    {[i \in 1..n |-> Point(i)] : n \in 0..MaxVerts}
        \cup {[i \in 1..n |-> Point(n + 1 - i)] : n \in 0..MaxVerts}

\* Index values a face of the file may hold.  Over the vertex counts
\* 0..MaxVerts they cover valid positions, a negative index inside -len..-1,
\* a negative index below -len (len = 0) and indices >= len.
Indices == {-1, 0, 1, 2, 3}

\* Triangles over three different indices, written from their smallest
\* index, in both orientations.
Faces ==
    {f \in Indices \X Indices \X Indices :
        f[1] < f[2] /\ f[1] < f[3] /\ f[2] # f[3]}

FaceLists == UNION {[1..n -> Faces] : n \in 0..MaxFaces}

\* numpy bounds check of one index on an axis of length len: indices in
\* -len..len-1 are accepted, anything else raises IndexError.
InBounds(len, i) == -len <= i /\ i < len

\* numpy element access: a negative index counts from the end.
Item(arr, i) == IF i >= 0 THEN arr[i + 1] ELSE arr[Len(arr) + i + 1]

\* vertices[face, col]: fancy indexing with the three indices of the face.
Column(verts, f, col) == [e \in 1..3 |-> Item(verts, f[e])[col]]

\* The record of one ax.plot(xs, ys, zs, 'b-', alpha=0.5) call.
Line(xs, ys, zs) == [xs |-> xs, ys |-> ys, zs |-> zs, fmt |-> "b-"]

DefaultLabels == [x |-> "", y |-> "", z |-> ""]
DefaultCamera == [elev |-> 30, azim |-> -60]

Init ==
    /\ pc = "load"
    /\ error = "none"
    /\ vertices = <<>>
    /\ faces = <<>>
    /\ it = 0
    /\ face = <<>>
    /\ x = <<>>
    /\ y = <<>>
    /\ z = <<>>
    /\ canvas = <<>>
    /\ labels = DefaultLabels
    /\ camera = DefaultCamera
    /\ loads = 0
    /\ shows = 0

\* mesh = trimesh.load_mesh('monkey.obj'); vertices, faces = mesh.vertices, mesh.faces
Load ==
    /\ pc = "load"
    /\ \E vs \in VertexLists, fs \in FaceLists :
          /\ vertices' = vs
          /\ faces' = fs
    /\ loads' = loads + 1
    /\ pc' = "figure"
    /\ UNCHANGED <<error, it, face, x, y, z, canvas, labels, camera, shows>>

\* trimesh.load_mesh raises (missing or unreadable file): the script ends.
LoadFail ==
    /\ pc = "load"
    /\ pc' = "failed"
    /\ error' = "LoadError"
    /\ UNCHANGED <<vertices, faces, it, face, x, y, z, canvas, labels, camera,
                   loads, shows>>

\* fig = plt.figure(...); ax = fig.add_subplot(111, projection='3d')
CreateFigure ==
    /\ pc = "figure"
    /\ canvas' = <<>>
    /\ labels' = DefaultLabels
    /\ camera' = DefaultCamera
    /\ pc' = "for"
    /\ UNCHANGED <<error, vertices, faces, it, face, x, y, z, loads, shows>>

\* for face in faces: the iterator hands out the next face.
ForFace ==
    /\ pc = "for"
    /\ it < Len(faces)
    /\ it' = it + 1
    /\ face' = faces[it + 1]
    /\ pc' = "lookup_x"
    /\ UNCHANGED <<error, vertices, faces, x, y, z, canvas, labels, camera,
                   loads, shows>>

\* Variant of ForExit: the loop ends one face early.
ForExitEarly ==
    /\ pc = "for"
    /\ it >= Len(faces) - 1
    /\ pc' = "xlabel"
    /\ UNCHANGED <<error, vertices, faces, it, face, x, y, z, canvas, labels,
                   camera, loads, shows>>

\* Variant of ForExit: an empty face list is read at position 0 and raises.
ForExitEmptyFails ==
    /\ pc = "for"
    /\ it >= Len(faces)
    /\ IF Len(faces) = 0
       THEN pc' = "failed" /\ error' = "IndexError"
       ELSE pc' = "xlabel" /\ error' = error
    /\ UNCHANGED <<vertices, faces, it, face, x, y, z, canvas, labels, camera,
                   loads, shows>>

\* for face in faces: the iterator is exhausted, the loop ends.
ForExit ==
    /\ pc = "for"
    /\ it >= Len(faces)
    /\ pc' = "xlabel"
    /\ UNCHANGED <<error, vertices, faces, it, face, x, y, z, canvas, labels,
                   camera, loads, shows>>

\* Variant of LookupX: a face with an index out of bounds is skipped.
LookupXSkip ==
    /\ pc = "lookup_x"
    /\ IF \A e \in 1..3 : InBounds(Len(vertices), face[e])
       THEN /\ x' = Column(vertices, face, 1)
            /\ pc' = "lookup_y"
       ELSE /\ x' = x
            /\ pc' = "for"
    /\ UNCHANGED <<error, vertices, faces, it, face, y, z, canvas, labels,
                   camera, loads, shows>>

\* Variant of LookupX: the x coordinates are read and the first vertex of
\* the face is moved to x = 0 in place.
LookupXInPlace ==
    /\ pc = "lookup_x"
    /\ IF \A e \in 1..3 : InBounds(Len(vertices), face[e])
       THEN /\ x' = Column(vertices, face, 1)
            /\ vertices' =
                  [vertices EXCEPT
                      ![IF face[1] >= 0 THEN face[1] + 1
                                        ELSE Len(vertices) + face[1] + 1][1] = 0]
            /\ pc' = "lookup_y"
            /\ error' = error
       ELSE /\ x' = x
            /\ vertices' = vertices
            /\ pc' = "failed"
            /\ error' = "IndexError"
    /\ UNCHANGED <<faces, it, face, y, z, canvas, labels, camera, loads, shows>>

\* Variant of LookupX: the indices are checked one by one while drawing, so
\* the first edge is drawn before a bad third index is met.
LookupXLazy ==
    /\ pc = "lookup_x"
    /\ IF \A e \in 1..3 : InBounds(Len(vertices), face[e])
       THEN /\ x' = Column(vertices, face, 1)
            /\ canvas' = canvas
            /\ pc' = "lookup_y"
            /\ error' = error
       ELSE /\ x' = x
            /\ canvas' =
                  IF InBounds(Len(vertices), face[1]) /\ InBounds(Len(vertices), face[2])
                  THEN Append(canvas,
                              Line(<<Item(vertices, face[1])[1], Item(vertices, face[2])[1]>>,
                                   <<Item(vertices, face[1])[2], Item(vertices, face[2])[2]>>,
                                   <<Item(vertices, face[1])[3], Item(vertices, face[2])[3]>>))
                  ELSE canvas
            /\ pc' = "failed"
            /\ error' = "IndexError"
    /\ UNCHANGED <<vertices, faces, it, face, y, z, labels, camera, loads, shows>>

\* x = vertices[face, 0]
LookupX ==
    /\ pc = "lookup_x"
    /\ IF \A e \in 1..3 : InBounds(Len(vertices), face[e])
       THEN /\ x' = Column(vertices, face, 1)
            /\ pc' = "lookup_y"
            /\ error' = error
       ELSE /\ x' = x
            /\ pc' = "failed"
            /\ error' = "IndexError"
    /\ UNCHANGED <<vertices, faces, it, face, y, z, canvas, labels, camera,
                   loads, shows>>

\* y = vertices[face, 1]
LookupY ==
    /\ pc = "lookup_y"
    /\ IF \A e \in 1..3 : InBounds(Len(vertices), face[e])
       THEN /\ y' = Column(vertices, face, 2)
            /\ pc' = "lookup_z"
            /\ error' = error
       ELSE /\ y' = y
            /\ pc' = "failed"
            /\ error' = "IndexError"
    /\ UNCHANGED <<vertices, faces, it, face, x, z, canvas, labels, camera,
                   loads, shows>>

\* z = vertices[face, 2]
LookupZ ==
    /\ pc = "lookup_z"
    /\ IF \A e \in 1..3 : InBounds(Len(vertices), face[e])
       THEN /\ z' = Column(vertices, face, 3)
            /\ pc' = "plot1"
            /\ error' = error
       ELSE /\ z' = z
            /\ pc' = "failed"
            /\ error' = "IndexError"
    /\ UNCHANGED <<vertices, faces, it, face, x, y, canvas, labels, camera,
                   loads, shows>>

\* Variant of Plot1: an edge already on the canvas, in either direction, is
\* not drawn again.
Plot1Dedup ==
    /\ pc = "plot1"
    /\ canvas' =
          IF \E p \in 1..Len(canvas) :
                \/ canvas[p] = Line(<<x[1], x[2]>>, <<y[1], y[2]>>, <<z[1], z[2]>>)
                \/ canvas[p] = Line(<<x[2], x[1]>>, <<y[2], y[1]>>, <<z[2], z[1]>>)
          THEN canvas
          ELSE Append(canvas, Line(<<x[1], x[2]>>, <<y[1], y[2]>>, <<z[1], z[2]>>))
    /\ pc' = "plot2"
    /\ UNCHANGED <<error, vertices, faces, it, face, x, y, z, labels, camera,
                   loads, shows>>

\* ax.plot([x[0], x[1]], [y[0], y[1]], [z[0], z[1]], 'b-', alpha=0.5)
Plot1 ==
    /\ pc = "plot1"
    /\ canvas' = Append(canvas, Line(<<x[1], x[2]>>, <<y[1], y[2]>>, <<z[1], z[2]>>))
    /\ pc' = "plot2"
    /\ UNCHANGED <<error, vertices, faces, it, face, x, y, z, labels, camera,
                   loads, shows>>

\* Variant of Plot2: the second edge ends at the wrong vertex.
Plot2WrongEnd ==
    /\ pc = "plot2"
    /\ canvas' = Append(canvas, Line(<<x[1], x[3]>>, <<y[1], y[3]>>, <<z[1], z[3]>>))
    /\ pc' = "plot3"
    /\ UNCHANGED <<error, vertices, faces, it, face, x, y, z, labels, camera,
                   loads, shows>>

\* ax.plot([x[1], x[2]], [y[1], y[2]], [z[1], z[2]], 'b-', alpha=0.5)
Plot2 ==
    /\ pc = "plot2"
    /\ canvas' = Append(canvas, Line(<<x[2], x[3]>>, <<y[2], y[3]>>, <<z[2], z[3]>>))
    /\ pc' = "plot3"
    /\ UNCHANGED <<error, vertices, faces, it, face, x, y, z, labels, camera,
                   loads, shows>>

\* Variant of Plot3: plt.show() is called inside the loop, after each face.
Plot3ShowInLoop ==
    /\ pc = "plot3"
    /\ canvas' = Append(canvas, Line(<<x[3], x[1]>>, <<y[3], y[1]>>, <<z[3], z[1]>>))
    /\ shows' = shows + 1
    /\ pc' = "for"
    /\ UNCHANGED <<error, vertices, faces, it, face, x, y, z, labels, camera,
                   loads>>

\* ax.plot([x[2], x[0]], [y[2], y[0]], [z[2], z[0]], 'b-', alpha=0.5)
Plot3 ==
    /\ pc = "plot3"
    /\ canvas' = Append(canvas, Line(<<x[3], x[1]>>, <<y[3], y[1]>>, <<z[3], z[1]>>))
    /\ pc' = "for"
    /\ UNCHANGED <<error, vertices, faces, it, face, x, y, z, labels, camera,
                   loads, shows>>

\* ax.set_xlabel('X')
SetXLabel ==
    /\ pc = "xlabel"
    /\ labels' = [labels EXCEPT !.x = "X"]
    /\ pc' = "ylabel"
    /\ UNCHANGED <<error, vertices, faces, it, face, x, y, z, canvas, camera,
                   loads, shows>>

\* ax.set_ylabel('Y')
SetYLabel ==
    /\ pc = "ylabel"
    /\ labels' = [labels EXCEPT !.y = "Y"]
    /\ pc' = "zlabel"
    /\ UNCHANGED <<error, vertices, faces, it, face, x, y, z, canvas, camera,
                   loads, shows>>

\* ax.set_zlabel('Z')
SetZLabel ==
    /\ pc = "zlabel"
    /\ labels' = [labels EXCEPT !.z = "Z"]
    /\ pc' = "view_init"
    /\ UNCHANGED <<error, vertices, faces, it, face, x, y, z, canvas, camera,
                   loads, shows>>

\* Variant of ViewInit: elevation and azimuth exchanged.
ViewInitSwapped ==
    /\ pc = "view_init"
    /\ camera' = [elev |-> 45, azim |-> 20]
    /\ pc' = "show"
    /\ UNCHANGED <<error, vertices, faces, it, face, x, y, z, canvas, labels,
                   loads, shows>>

\* ax.view_init(elev=20, azim=45)
ViewInit ==
    /\ pc = "view_init"
    /\ camera' = [elev |-> 20, azim |-> 45]
    /\ pc' = "show"
    /\ UNCHANGED <<error, vertices, faces, it, face, x, y, z, canvas, labels,
                   loads, shows>>

\* plt.show(): the call is made and blocks while the window is open.
Show ==
    /\ pc = "show"
    /\ shows' = shows + 1
    /\ pc' = "showing"
    /\ UNCHANGED <<error, vertices, faces, it, face, x, y, z, canvas, labels,
                   camera, loads>>

\* The user closes the window: plt.show() returns and the script ends.
CloseWindow ==
    /\ pc = "showing"
    /\ pc' = "done"
    /\ UNCHANGED <<error, vertices, faces, it, face, x, y, z, canvas, labels,
                   camera, loads, shows>>

Next ==
    \/ Load
    \/ LoadFail
    \/ CreateFigure
    \/ ForFace
    \/ ForExit
    \/ LookupX
    \/ LookupY
    \/ LookupZ
    \/ Plot1
    \/ Plot2
    \/ Plot3
    \/ SetXLabel
    \/ SetYLabel
    \/ SetZLabel
    \/ ViewInit
    \/ Show
    \/ CloseWindow

Spec == Init /\ [][Next]_vars

TypeOK ==
    /\ pc \in {"load", "figure", "for", "lookup_x", "lookup_y", "lookup_z",
               "plot1", "plot2", "plot3", "xlabel", "ylabel", "zlabel",
               "view_init", "show", "showing", "done", "failed"}
    /\ error \in {"none", "LoadError", "IndexError"}
    /\ it \in 0..Len(faces)
    /\ loads \in 0..1
    /\ shows \in 0..1

(***************************************************************************)
(* Vocabulary of the properties.                                           *)
(***************************************************************************)

\* i is a valid position of the vertex list: 0 <= i < len(vertices).
ValidPos(i) == 0 <= i /\ i <= Len(vertices) - 1

ValidFace(f) == \A e \in 1..3 : ValidPos(f[e])

AllValid == \A n \in 1..Len(faces) : ValidFace(faces[n])

BodyStates == {"lookup_x", "lookup_y", "lookup_z", "plot1", "plot2", "plot3"}

AfterLoopStates == {"xlabel", "ylabel", "zlabel", "view_init", "show", "showing", "done"}

SetLabels == [x |-> "X", y |-> "Y", z |-> "Z"]

SetCamera == [elev |-> 20, azim |-> 45]

\* The two end points of a drawn line.
From(l) == <<l.xs[1], l.ys[1], l.zs[1]>>
To(l) == <<l.xs[2], l.ys[2], l.zs[2]>>

\* Edge e of a face goes from its e-th index to the next one, cyclically.
EdgeFrom(f, e) == f[e]
EdgeTo(f, e) == f[(e % 3) + 1]

\* C1: when the viewer is opened on a mesh whose face indices are all valid
\* positions, exactly 3 x F ax.plot calls have been issued.
C1_DrawCount ==
    (pc = "showing" /\ AllValid) => Len(canvas) = 3 * Len(faces)

C1_Witness ==
    pc = "showing" /\ AllValid /\ Len(faces) >= 2 /\ Len(canvas) = 3 * Len(faces)

\* C2: the p-th line on the canvas is edge ((p-1) mod 3)+1 of face
\* ((p-1) div 3)+1: for a face (i, j, k) of valid positions the lines are
\* V[i]->V[j], V[j]->V[k], V[k]->V[i] in this order, and each end point equals
\* the vertex-list entry in x, y and z.
C2_SegmentsMatch ==
    \A p \in 1..Len(canvas) :
        LET n == ((p - 1) \div 3) + 1
            e == ((p - 1) % 3) + 1
        IN  /\ n <= Len(faces)
            /\ ValidFace(faces[n]) =>
                  LET a == vertices[EdgeFrom(faces[n], e) + 1]
                      b == vertices[EdgeTo(faces[n], e) + 1]
                  IN  /\ canvas[p].xs = <<a[1], b[1]>>
                      /\ canvas[p].ys = <<a[2], b[2]>>
                      /\ canvas[p].zs = <<a[3], b[3]>>

C2_Witness ==
    /\ pc = "showing"
    /\ AllValid
    /\ Len(faces) >= 2
    /\ faces[1] # faces[2]
    /\ Len(canvas) = 6

\* C3: once a mesh holding a face index >= len(vertices) is loaded, plt.show
\* is never called and the script never leaves the draw loop normally, so
\* the only way it ends is the failed state.
C3_NoShowOnBadIndex ==
    (loads = 1 /\ \E n \in 1..Len(faces) : \E e \in 1..3 : faces[n][e] >= Len(vertices))
        => (shows = 0 /\ pc \notin AfterLoopStates)

C3_Witness ==
    /\ pc = "failed"
    /\ error = "IndexError"
    /\ Len(faces) >= 2
    /\ ValidFace(faces[1])
    /\ \E e \in 1..3 : faces[2][e] >= Len(vertices)
    /\ Len(canvas) = 3
    /\ shows = 0

\* C4: a face holding an index that is no valid position (negative values
\* included) makes the loop fail at its lookup; no face of that kind gets
\* past the lookup, so nothing is drawn from it.
C4_InvalidIndexFails ==
    \A k \in 1..it :
        ~ValidFace(faces[k]) => (k = it /\ pc \in {"lookup_x", "failed"})

\* C5: with zero faces the loop body is never entered, nothing is drawn,
\* nothing fails, and the viewer is opened once with labels and camera set.
C5_ZeroFaces ==
    (loads = 1 /\ Len(faces) = 0) =>
        /\ canvas = <<>>
        /\ pc \notin BodyStates
        /\ pc # "failed"
        /\ error = "none"
        /\ it = 0
        /\ pc \in {"showing", "done"} =>
              (shows = 1 /\ labels = SetLabels /\ camera = SetCamera)
        /\ pc \notin {"showing", "done"} => shows = 0

C5_Witness ==
    pc = "showing" /\ loads = 1 /\ Len(faces) = 0 /\ shows = 1 /\ canvas = <<>>

\* C6: whenever the viewer is open the axis labels are "X", "Y", "Z" and
\* the camera is at elevation 20, azimuth 45.
C6_LabelsCamera ==
    pc = "showing" =>
        /\ labels.x = "X" /\ labels.y = "Y" /\ labels.z = "Z"
        /\ camera.elev = 20 /\ camera.azim = 45

C6_Witness ==
    pc = "showing" /\ Len(faces) >= 1 /\ Len(vertices) >= 3 /\ Len(canvas) >= 3

\* Number of lines on the canvas joining points P and Q, in either direction.
DrawnBetween(P, Q) ==
    Cardinality({p \in 1..Len(canvas) :
                    {From(canvas[p]), To(canvas[p])} = {P, Q}})

\* Number of edges of the face list joining points P and Q.
EdgesBetween(P, Q) ==
    Cardinality({ne \in (1..Len(faces)) \X (1..3) :
                    {vertices[EdgeFrom(faces[ne[1]], ne[2]) + 1],
                     vertices[EdgeTo(faces[ne[1]], ne[2]) + 1]} = {P, Q}})

\* C7: no deduplication: when the viewer is opened on a mesh of valid faces,
\* an edge between two vertices that belongs to n faces is on the canvas n
\* times.
C7_NoDedup ==
    (pc = "showing" /\ AllValid) =>
        \A P \in Points : \A Q \in Points :
            DrawnBetween(P, Q) = EdgesBetween(P, Q)

C7_Witness ==
    /\ pc = "showing"
    /\ AllValid
    /\ \E P \in Points : \E Q \in Points :
          P # Q /\ EdgesBetween(P, Q) = 2 /\ DrawnBetween(P, Q) = 2
    /\ \E P \in Points : \E Q \in Points :
          P # Q /\ EdgesBetween(P, Q) = 1 /\ DrawnBetween(P, Q) = 1

\* C8: one load -> draw -> show pass: the load happens once and before any
\* draw; a draw happens only while labels and camera are untouched and no
\* display call was made; labels and camera change only before the display
\* call; the display call is made at most once, with labels and camera set,
\* and after it started nothing is drawn or changed.
C8_OneShotPipeline ==
    [][ /\ loads' # loads =>
              (loads = 0 /\ loads' = 1 /\ canvas = <<>> /\ shows = 0)
        /\ canvas' # canvas =>
              /\ loads = 1
              /\ shows = 0 /\ shows' = 0
              /\ labels = DefaultLabels /\ labels' = labels
              /\ camera = DefaultCamera /\ camera' = camera
        /\ (labels' # labels \/ camera' # camera) =>
              (shows = 0 /\ shows' = 0 /\ canvas' = canvas)
        /\ shows' # shows =>
              (shows = 0 /\ shows' = 1 /\ labels = SetLabels /\ camera = SetCamera)
        /\ shows >= 1 =>
              (canvas' = canvas /\ labels' = labels /\ camera' = camera
                  /\ shows' = shows /\ loads' = loads)
      ]_vars

C8_Witness ==
    pc = "done" /\ shows = 1 /\ loads = 1 /\ Len(canvas) = 6

\* C9: after the load the vertex list and the face list never change, and a
\* step of the draw loop changes nothing of the figure except by appending
\* one line to the canvas.
C9_MeshReadOnly ==
    [][ /\ loads = 1 => (vertices' = vertices /\ faces' = faces)
        /\ pc \in BodyStates \cup {"for"} =>
              /\ labels' = labels
              /\ camera' = camera
              /\ shows' = shows
              /\ loads' = loads
              /\ \/ canvas' = canvas
                 \/ /\ Len(canvas') = Len(canvas) + 1
                    /\ SubSeq(canvas', 1, Len(canvas)) = canvas
      ]_vars

C9_Witness ==
    pc = "showing" /\ loads = 1 /\ Len(faces) >= 2 /\ Len(canvas) = 6

\* C10: lines reach the canvas per face, all three or none: at the loop
\* head 3 lines per handed-out face are drawn, the lookups of a face run
\* with none of its lines drawn, and when the run fails with an index error
\* the failing face is the first one holding an index outside -len..len-1
\* and exactly 3 lines per earlier face are on the canvas.
C10_PerFaceAtomic ==
    /\ pc = "for" => Len(canvas) = 3 * it
    /\ pc \in {"lookup_x", "lookup_y", "lookup_z", "plot1"} =>
          Len(canvas) = 3 * (it - 1)
    /\ (pc = "failed" /\ error = "IndexError") =>
          /\ it >= 1
          /\ Len(canvas) = 3 * (it - 1)
          /\ \E e \in 1..3 :
                faces[it][e] < -Len(vertices) \/ faces[it][e] >= Len(vertices)
          /\ \A k \in 1..(it - 1) : \A e \in 1..3 :
                -Len(vertices) <= faces[k][e] /\ faces[k][e] < Len(vertices)

C10_Witness ==
    /\ pc = "failed"
    /\ error = "IndexError"
    /\ it = 2
    /\ Len(canvas) = 3
====
